---- MODULE Spec2Model ----
(***************************************************************************)
(* A model of xadmin's form-widget helpers (xadmin/widgets.py) and of the  *)
(* context-normalisation helper (xadmin/plugins/utils.py).                 *)
(*                                                                         *)
(* Python objects live in a heap (a sequence of objects addressed by their *)
(* position), so that aliasing, copies and in-place mutation are visible.  *)
(* Python strings are TLA+ strings; a Python dict is the sequence of its   *)
(* items in insertion order.                                               *)
(***************************************************************************)
EXTENDS Integers, Sequences, FiniteSets, TLC

VARIABLES
    heap,   \* the Python objects: heap[r] is the object with reference r
    op,     \* the last operation that ran, with its arguments
    ret     \* what that operation returned

vars == <<heap, op, ret>>

---------------------------------------------------------------------------
(* Python values: str, SafeText, int, bool and None.                       *)

PyStr(s) == [t |-> "str", s |-> s, n |-> 0]
PySafe(s) == [t |-> "safe", s |-> s, n |-> 0]
PyInt(n) == [t |-> "int", s |-> "", n |-> n]
PyBool(b) == [t |-> "bool", s |-> "", n |-> IF b THEN 1 ELSE 0]
PyNone == [t |-> "none", s |-> "", n |-> 0]
\* a reference to the object at position r of the heap
PyRef(r) == [t |-> "ref", s |-> "", n |-> r]

IsText(x) == x.t \in {"str", "safe"}

\* str(x), the text '%s' % x puts in a string
Text(x) ==
    CASE x.t \in {"str", "safe"} -> x.s
      [] x.t = "int" -> ToString(x.n)
      [] x.t = "bool" -> IF x.n = 1 THEN "True" ELSE "False"
      [] OTHER -> "None"

\* force_text / force_unicode: a string is returned as it is (a SafeText
\* stays one), anything else is converted to its text
force_text(x) == IF IsText(x) THEN x ELSE PyStr(Text(x))

\* bool(x)
Truthy(x) ==
    CASE x.t \in {"str", "safe"} -> x.s /= ""
      [] x.t \in {"int", "bool"} -> x.n /= 0
      [] OTHER -> FALSE

\* x == y
PyEq(x, y) ==
    CASE IsText(x) /\ IsText(y) -> x.s = y.s
      [] x.t \in {"int", "bool"} /\ y.t \in {"int", "bool"} -> x.n = y.n
      [] x.t = "none" /\ y.t = "none" -> TRUE
      [] OTHER -> FALSE

---------------------------------------------------------------------------
(* Python strings.                                                         *)

AsciiLow == " !\"#$%&'()*+,-./0123456789:;<=>?@ABCDEFGHIJKLMNOPQRSTUVWXYZ[\\]^_"
AsciiHigh == "abcdefghijklmnopqrstuvwxyz{|}~"

\* ord(c) for the printable ASCII characters (the backquote is left out)
CodePoints ==
    [c \in {SubSeq(AsciiLow, i, i) : i \in 1..Len(AsciiLow)}
              \cup {SubSeq(AsciiHigh, i, i) : i \in 1..Len(AsciiHigh)} |->
        IF \E i \in 1..Len(AsciiLow) : SubSeq(AsciiLow, i, i) = c
        THEN 31 + (CHOOSE i \in 1..Len(AsciiLow) : SubSeq(AsciiLow, i, i) = c)
        ELSE 96 + (CHOOSE i \in 1..Len(AsciiHigh) : SubSeq(AsciiHigh, i, i) = c)]

CodePoint(c) == CodePoints[c]

RECURSIVE StrLess(_, _)
\* a < b on strings: lexicographic by code point
StrLess(a, b) ==
    IF b = "" THEN FALSE
    ELSE IF a = "" THEN TRUE
    ELSE LET ca == CodePoint(SubSeq(a, 1, 1))
             cb == CodePoint(SubSeq(b, 1, 1))
         IN IF ca /= cb THEN ca < cb
            ELSE StrLess(SubSeq(a, 2, Len(a)), SubSeq(b, 2, Len(b)))

\* s.find(sub) + 1: where sub first occurs in s, 0 when it does not
str_find(s, sub) ==
    LET at == {i \in 1..(Len(s) - Len(sub) + 1) : SubSeq(s, i, i + Len(sub) - 1) = sub}
    IN IF at = {} THEN 0 ELSE CHOOSE i \in at : \A j \in at : i <= j

RECURSIVE str_replace(_, _, _)
\* s.replace(old, new), old not empty: the occurrences are taken left to right
str_replace(s, old, new) ==
    LET p == str_find(s, old)
    IN IF p = 0 THEN s
       ELSE SubSeq(s, 1, p - 1) \o new
                \o str_replace(SubSeq(s, p + Len(old), Len(s)), old, new)

RECURSIVE str_format(_, _)
\* fmt.format(*args) for the positional fields {0} .. {9}
str_format(fmt, args) ==
    LET p == str_find(fmt, "{")
    IN IF p = 0 THEN fmt
       ELSE SubSeq(fmt, 1, p - 1)
                \o args[(CHOOSE i \in 0..9 : ToString(i) = SubSeq(fmt, p + 1, p + 1)) + 1]
                \o str_format(SubSeq(fmt, p + 3, Len(fmt)), args)

RECURSIVE str_join(_, _)
\* sep.join(parts)
str_join(sep, parts) ==
    IF parts = <<>> THEN ""
    ELSE IF Len(parts) = 1 THEN parts[1]
    ELSE parts[1] \o sep \o str_join(sep, Tail(parts))

\* django.utils.html.escape
escape(s) ==
    str_replace(str_replace(str_replace(str_replace(str_replace(s,
        "&", "&amp;"), "<", "&lt;"), ">", "&gt;"), "\"", "&quot;"), "'", "&#39;")

\* django.utils.html.conditional_escape: a SafeText is taken as it is,
\* anything else is converted to text and escaped
conditional_escape(x) == IF x.t = "safe" THEN x.s ELSE escape(Text(x))

\* django.utils.html.format_html: every argument goes through
\* conditional_escape before it is substituted
format_html(fmt, args) ==
    str_format(fmt, [i \in 1..Len(args) |-> conditional_escape(args[i])])

\* django.utils.html.format_html_join
format_html_join(sep, fmt, args_generator) ==
    str_join(conditional_escape(PyStr(sep)),
             [i \in 1..Len(args_generator) |-> format_html(fmt, args_generator[i])])

---------------------------------------------------------------------------
(* Python dicts: the items [k, v] in insertion order, keys unique.         *)

DictKeys(d) == {d[i].k : i \in 1..Len(d)}
DictHas(d, k) == k \in DictKeys(d)
DictGet(d, k) == d[CHOOSE i \in 1..Len(d) : d[i].k = k].v
DictGetDefault(d, k, dflt) == IF DictHas(d, k) THEN DictGet(d, k) ELSE dflt

\* d[k] = v: an existing key keeps its place, a new key goes last
DictSet(d, k, v) ==
    IF DictHas(d, k)
    THEN [i \in 1..Len(d) |-> IF d[i].k = k THEN [k |-> k, v |-> v] ELSE d[i]]
    ELSE Append(d, [k |-> k, v |-> v])

RECURSIVE DictUpdate(_, _)
\* d.update(e)
DictUpdate(d, e) ==
    IF e = <<>> THEN d
    ELSE DictUpdate(DictSet(d, Head(e).k, Head(e).v), Tail(e))

\* d1 == d2: the same keys with the same values, in any order
DictEq(d1, d2) ==
    /\ DictKeys(d1) = DictKeys(d2)
    /\ \A k \in DictKeys(d1) : DictGet(d1, k) = DictGet(d2, k)

---------------------------------------------------------------------------
(* The heap.                                                               *)

Alloc(h, obj) == [h |-> Append(h, obj), ret |-> Len(h) + 1]
NewDict(items) == [cls |-> "dict", items |-> items]
HeapSet(h, r, obj) == [h EXCEPT ![r] = obj]

---------------------------------------------------------------------------
(* xadmin/plugins/utils.py                                                 *)

\* django.template.context: Context.__getitem__ looks the key up from the
\* topmost layer down
RECURSIVE ContextLookup(_, _, _, _)
ContextLookup(h, dicts, i, key) ==
    IF i = 0 THEN PyNone
    ELSE IF DictHas(h[dicts[i]].items, key) THEN DictGet(h[dicts[i]].items, key)
    ELSE ContextLookup(h, dicts, i - 1, key)

Context_getitem(h, context, key) ==
    ContextLookup(h, h[context].dicts, Len(h[context].dicts), key)

RECURSIVE FlattenFirstWins(_, _, _)
FlattenFirstWins(h, dicts, ctx) ==
    IF dicts = <<>> THEN ctx
    ELSE LET i == h[Head(dicts)].items
             fresh == SelectSeq(i, LAMBDA it : ~DictHas(ctx, it.k))
         IN FlattenFirstWins(h, Tail(dicts), DictUpdate(ctx, fresh))

RECURSIVE FlattenLayers(_, _, _)
\* for i in context.dicts: for t in i: ctx[t] = i[t]
FlattenLayers(h, dicts, ctx) ==
    IF dicts = <<>> THEN ctx
    ELSE FlattenLayers(h, Tail(dicts), DictUpdate(ctx, h[Head(dicts)].items))

\* a variant that accumulates into the first layer instead of a new dict
get_context_dict_InPlace(h, context) ==
    IF h[context].cls = "RequestContext" /\ h[context].dicts /= <<>>
    THEN LET first == Head(h[context].dicts)
         IN [h |-> HeapSet(h, first,
                       NewDict(FlattenLayers(h, h[context].dicts, h[first].items))),
             ret |-> first]
    ELSE IF h[context].cls = "RequestContext"
    THEN Alloc(h, NewDict(<<>>))
    ELSE [h |-> h, ret |-> context]

get_context_dict(h, context) ==
    IF h[context].cls = "RequestContext"
    THEN Alloc(h, NewDict(FlattenLayers(h, h[context].dicts, <<>>)))
    ELSE [h |-> h, ret |-> context]

(* The contexts get_context_dict is called with: a RequestContext of up to *)
(* MaxLayers layers, or a plain dict.                                      *)

MaxLayers == 3
CtxKeys == {"a", "b"}
CtxVals == {PyInt(1), PyInt(2)}

\* every dict over the keys K with values in V, in every insertion order
DictsOver(K, V) ==
    UNION {{d \in [1..n -> [k : K, v : V]] :
                \A i, j \in 1..n : d[i].k = d[j].k => i = j}
           : n \in 0..Cardinality(K)}

InitContext ==
    /\ \/ \E n \in 0..MaxLayers : \E ls \in [1..n -> DictsOver(CtxKeys, CtxVals)] :
            /\ heap = [i \in 1..n |-> NewDict(ls[i])]
                          \o <<[cls |-> "RequestContext", dicts |-> [i \in 1..n |-> i]]>>
            /\ op = [name |-> "new", args |-> <<n + 1>>]
       \/ \E d \in DictsOver(CtxKeys, CtxVals) :
            /\ heap = <<NewDict(d)>>
            /\ op = [name |-> "new", args |-> <<1>>]
    /\ ret = PyNone

GetContextDict ==
    /\ op.name = "new"
    /\ LET r == get_context_dict(heap, op.args[1])
       IN /\ heap' = r.h
          /\ ret' = PyRef(r.ret)
    /\ op' = [name |-> "get_context_dict", args |-> op.args]

NextContext == GetContextDict

SpecContext == InitContext /\ [][NextContext]_vars

\* the layers of the context the last call was given, and the keys they hold
ArgLayers == heap[op.args[1]].dicts
ArgKeys == UNION {DictKeys(heap[ArgLayers[i]].items) : i \in 1..Len(ArgLayers)}
CalledOnContext ==
    op.name = "get_context_dict" /\ heap[op.args[1]].cls = "RequestContext"

\* C1: for a RequestContext of any layers, get_context_dict returns one flat
\* mapping whose keys are exactly the union of the layers' keys, each with the
\* value of the last (topmost) layer holding it, which is the value a lookup
\* of the key on the context returns.
C1_FlattenIsLookup ==
    CalledOnContext =>
        LET res == heap[ret.n].items
        IN /\ heap[ret.n].cls = "dict"
           /\ DictKeys(res) = ArgKeys
           /\ \A i, j \in 1..Len(res) : res[i].k = res[j].k => i = j
           /\ \A k \in ArgKeys :
                LET top == CHOOSE i \in 1..Len(ArgLayers) :
                             /\ DictHas(heap[ArgLayers[i]].items, k)
                             /\ \A j \in (i + 1)..Len(ArgLayers) :
                                    ~DictHas(heap[ArgLayers[j]].items, k)
                IN /\ DictGet(res, k) = DictGet(heap[ArgLayers[top]].items, k)
                   /\ DictGet(res, k) = Context_getitem(heap, op.args[1], k)

\* a call on a context whose layers disagree on a key
C1_Witness ==
    /\ CalledOnContext
    /\ \E i, j \in 1..Len(ArgLayers) : \E k \in CtxKeys :
          /\ i < j
          /\ DictHas(heap[ArgLayers[i]].items, k)
          /\ DictHas(heap[ArgLayers[j]].items, k)
          /\ DictGet(heap[ArgLayers[i]].items, k) /= DictGet(heap[ArgLayers[j]].items, k)
          /\ DictGet(heap[ret.n].items, k) = DictGet(heap[ArgLayers[j]].items, k)

\* C2: get_context_dict never modifies its argument: every object that existed
\* before the call is the same after it; for a RequestContext the result is a
\* newly built mapping, and for anything else the result is the argument
\* itself.
C2_ArgumentUntouched ==
    [][op'.name = "get_context_dict" /\ op.name = "new" =>
          /\ \A r \in 1..Len(heap) : heap'[r] = heap[r]
          /\ IF heap[op.args[1]].cls = "RequestContext"
             THEN ret'.n \notin 1..Len(heap) /\ heap'[ret'.n].cls = "dict"
             ELSE ret'.n = op.args[1] /\ Len(heap') = Len(heap)]_vars

\* a call on a context of two non-empty layers, and a call on a plain dict
C2_Witness ==
    /\ CalledOnContext
    /\ Len(ArgLayers) >= 2
    /\ \A i \in 1..Len(ArgLayers) : heap[ArgLayers[i]].items /= <<>>
    /\ ret.n = Len(heap)


---------------------------------------------------------------------------
(* xadmin/widgets.py                                                       *)

RECURSIVE sorted_insert(_, _)
sorted_insert(srt, it) ==
    IF srt = <<>> THEN <<it>>
    ELSE IF StrLess(it.k, Head(srt).k) THEN <<it>> \o srt
    ELSE <<Head(srt)>> \o sorted_insert(Tail(srt), it)

RECURSIVE sorted(_)
\* sorted(attrs.items()): the keys of a dict are unique, so the (key, value)
\* tuples are ordered by key
sorted(items) ==
    IF items = <<>> THEN <<>>
    ELSE sorted_insert(sorted(SubSeq(items, 1, Len(items) - 1)), items[Len(items)])

\* a variant that forgets to sort
flatatt_Unsorted(attrs) ==
    format_html_join("", " {0}=\"{1}\"",
                     [i \in 1..Len(attrs) |-> <<PyStr(attrs[i].k), attrs[i].v>>])

flatatt(attrs) ==
    LET items == sorted(attrs)
    IN format_html_join("", " {0}=\"{1}\"",
                        [i \in 1..Len(items) |-> <<PyStr(items[i].k), items[i].v>>])

(* The attribute dicts flatatt is called with.                             *)

FlatKeys == {"class", "id", "x&y"}
FlatVals == {PyStr("a"), PyStr("a<\"b\""), PySafe("<b>"), PyInt(10)}

InitFlatatt ==
    /\ \E d \in DictsOver(FlatKeys, FlatVals) :
          /\ heap = <<NewDict(d)>>
          /\ op = [name |-> "new", args |-> <<1>>]
    /\ ret = PyNone

Flatatt ==
    /\ op.name = "new"
    /\ ret' = PySafe(flatatt(heap[op.args[1]].items))
    /\ op' = [name |-> "flatatt", args |-> op.args]
    /\ UNCHANGED heap

NextFlatatt == Flatatt

SpecFlatatt == InitFlatatt /\ [][NextFlatatt]_vars

RECURSIVE Ascending(_)
\* the keys K, smallest first
Ascending(K) ==
    IF K = {} THEN <<>>
    ELSE LET m == CHOOSE k \in K : \A j \in K \ {k} : StrLess(k, j)
         IN <<m>> \o Ascending(K \ {m})

RECURSIVE Concat(_)
Concat(parts) == IF parts = <<>> THEN "" ELSE Head(parts) \o Concat(Tail(parts))

RawFragment(k, v) == " " \o k \o "=\"" \o Text(v) \o "\""
EscapedFragment(k, v) ==
    " " \o escape(k) \o "=\"" \o (IF v.t = "safe" THEN v.s ELSE escape(Text(v))) \o "\""

\* the fragments of the keys of d, smallest key first
JoinRaw(d) ==
    LET ks == Ascending(DictKeys(d))
    IN Concat([i \in 1..Len(ks) |-> RawFragment(ks[i], DictGet(d, ks[i]))])
JoinEscaped(d) ==
    LET ks == Ascending(DictKeys(d))
    IN Concat([i \in 1..Len(ks) |-> EscapedFragment(ks[i], DictGet(d, ks[i]))])

FlatattArg == heap[op.args[1]].items

---------------------------------------------------------------------------
(* The widgets that inject default attributes.  attrs is the reference of  *)
(* the caller's dict, or None.                                             *)

None == 0

\* django.forms.Widget.__init__: the widget keeps a copy of the attrs it is
\* handed
Widget_init(h, cls, attrs) ==
    LET a == Alloc(h, NewDict(IF attrs = None THEN <<>> ELSE h[attrs].items))
    IN Alloc(a.h, [cls |-> cls, attrs |-> a.ret])

\* a variant in which the defaults are applied over the caller's attrs
InjectDefaults_DefaultsWin(h, cls, defaults, attrs) ==
    LET f == Alloc(h, NewDict(IF attrs = None THEN <<>> ELSE h[attrs].items))
        h2 == HeapSet(f.h, f.ret, NewDict(DictUpdate(f.h[f.ret].items, defaults)))
        w == Widget_init(h2, cls, f.ret)
    IN [h |-> w.h, ret |-> w.ret, handed |-> f.ret]

\* final_attrs = {defaults}
\* if attrs is not None: final_attrs.update(attrs)
\* super().__init__(attrs=final_attrs)
InjectDefaults(h, cls, defaults, attrs) ==
    LET f == Alloc(h, NewDict(defaults))
        h2 == IF attrs /= None
              THEN HeapSet(f.h, f.ret,
                           NewDict(DictUpdate(f.h[f.ret].items, f.h[attrs].items)))
              ELSE f.h
        w == Widget_init(h2, cls, f.ret)
    IN [h |-> w.h, ret |-> w.ret, handed |-> f.ret]

Item(k, v) == [k |-> k, v |-> PyStr(v)]

AdminDateWidget_init(h, attrs) ==
    InjectDefaults(h, "AdminDateWidget",
                   <<Item("class", "date-field"), Item("size", "10")>>, attrs)
AdminTimeWidget_init(h, attrs) ==
    InjectDefaults(h, "AdminTimeWidget",
                   <<Item("class", "time-field"), Item("size", "8")>>, attrs)
AdminSelectMultiple_init(h, attrs) ==
    InjectDefaults(h, "AdminSelectMultiple", <<Item("class", "select-multi")>>, attrs)
AdminTextareaWidget_init(h, attrs) ==
    InjectDefaults(h, "AdminTextareaWidget", <<Item("class", "textarea-field")>>, attrs)
AdminTextInputWidget_init(h, attrs) ==
    InjectDefaults(h, "AdminTextInputWidget", <<Item("class", "text-field")>>, attrs)
AdminURLFieldWidget_init(h, attrs) ==
    InjectDefaults(h, "AdminURLFieldWidget", <<Item("class", "url-field")>>, attrs)
AdminIntegerFieldWidget_init(h, attrs) ==
    InjectDefaults(h, "AdminIntegerFieldWidget", <<Item("class", "int-field")>>, attrs)
AdminCommaSeparatedIntegerFieldWidget_init(h, attrs) ==
    InjectDefaults(h, "AdminCommaSeparatedIntegerFieldWidget",
                   <<Item("class", "sep-int-field")>>, attrs)

(* The attrs the widgets are constructed with.                             *)

InitKeys == {"class", "size", "id"}
InitVals == {PyStr("mine"), PyStr("20")}

InitWidgets ==
    /\ \/ heap = <<>> /\ op = [name |-> "new", args |-> <<None>>]
       \/ \E d \in DictsOver(InitKeys, InitVals) :
            heap = <<NewDict(d)>> /\ op = [name |-> "new", args |-> <<1>>]
    /\ ret = PyNone

\* the constructor call: the widget is returned, and the dict that was handed
\* to the base class is recorded with the call
Construct(cls, r) ==
    /\ op.name = "new"
    /\ heap' = r.h
    /\ ret' = PyRef(r.ret)
    /\ op' = [name |-> cls, args |-> op.args, handed |-> r.handed]

NewAdminDateWidget ==
    Construct("AdminDateWidget", AdminDateWidget_init(heap, op.args[1]))
NewAdminTimeWidget ==
    Construct("AdminTimeWidget", AdminTimeWidget_init(heap, op.args[1]))
NewAdminSelectMultiple ==
    Construct("AdminSelectMultiple", AdminSelectMultiple_init(heap, op.args[1]))
NewAdminTextareaWidget ==
    Construct("AdminTextareaWidget", AdminTextareaWidget_init(heap, op.args[1]))
NewAdminTextInputWidget ==
    Construct("AdminTextInputWidget", AdminTextInputWidget_init(heap, op.args[1]))
NewAdminURLFieldWidget ==
    Construct("AdminURLFieldWidget", AdminURLFieldWidget_init(heap, op.args[1]))
NewAdminIntegerFieldWidget ==
    Construct("AdminIntegerFieldWidget", AdminIntegerFieldWidget_init(heap, op.args[1]))
NewAdminCommaSeparatedIntegerFieldWidget ==
    Construct("AdminCommaSeparatedIntegerFieldWidget",
              AdminCommaSeparatedIntegerFieldWidget_init(heap, op.args[1]))

NextWidgets ==
    \/ NewAdminDateWidget
    \/ NewAdminTimeWidget
    \/ NewAdminSelectMultiple
    \/ NewAdminTextareaWidget
    \/ NewAdminTextInputWidget
    \/ NewAdminURLFieldWidget
    \/ NewAdminIntegerFieldWidget
    \/ NewAdminCommaSeparatedIntegerFieldWidget

SpecWidgets == InitWidgets /\ [][NextWidgets]_vars

\* the defaults each widget documents, as a mapping from key to text
ExpectedDefaults(cls) ==
    CASE cls = "AdminDateWidget" -> [class |-> "date-field", size |-> "10"]
      [] cls = "AdminTimeWidget" -> [class |-> "time-field", size |-> "8"]
      [] cls = "AdminSelectMultiple" -> [class |-> "select-multi"]
      [] cls = "AdminTextareaWidget" -> [class |-> "textarea-field"]
      [] cls = "AdminTextInputWidget" -> [class |-> "text-field"]
      [] cls = "AdminURLFieldWidget" -> [class |-> "url-field"]
      [] cls = "AdminIntegerFieldWidget" -> [class |-> "int-field"]
      [] cls = "AdminCommaSeparatedIntegerFieldWidget" -> [class |-> "sep-int-field"]

WidgetClasses ==
    {"AdminDateWidget", "AdminTimeWidget", "AdminSelectMultiple",
     "AdminTextareaWidget", "AdminTextInputWidget", "AdminURLFieldWidget",
     "AdminIntegerFieldWidget", "AdminCommaSeparatedIntegerFieldWidget"}

\* C4: for every widget that injects defaults and every caller attrs (or
\* none), the attributes handed to the base widget are the defaults overridden
\* by the caller's attrs: every caller key has the caller's value, every other
\* default key its default value, no other key is present, and the caller's
\* attrs mapping itself is left unchanged.
C4_DefaultsOverridden ==
    [][op'.name \in WidgetClasses =>
          LET caller == IF op.args[1] = None THEN <<>> ELSE heap[op.args[1]].items
              dflt == ExpectedDefaults(op'.name)
              handed == heap'[op'.handed].items
          IN /\ DictKeys(handed) = DictKeys(caller) \cup DOMAIN dflt
             /\ \A i, j \in 1..Len(handed) : handed[i].k = handed[j].k => i = j
             /\ \A k \in DictKeys(caller) : DictGet(handed, k) = DictGet(caller, k)
             /\ \A k \in DOMAIN dflt \ DictKeys(caller) :
                   DictGet(handed, k) = PyStr(dflt[k])
             /\ op.args[1] /= None =>
                   /\ heap'[op.args[1]] = heap[op.args[1]]
                   /\ op'.handed /= op.args[1]
             /\ heap'[ret'.n].cls = op'.name
             /\ DictEq(heap'[heap'[ret'.n].attrs].items, handed)]_vars

\* a date widget built from attrs that override class and add id, keeping
\* the default size
C4_Witness ==
    /\ op.name = "AdminDateWidget"
    /\ op.args[1] /= None
    /\ DictKeys(heap[op.args[1]].items) = {"class", "id"}
    /\ DictGet(heap[op.handed].items, "size") = PyStr("10")
    /\ DictGet(heap[op.handed].items, "class") = PyStr("mine")

---------------------------------------------------------------------------
(* Choice inputs and their renderers.  An input object holds name, value,  *)
(* attrs (the reference of its own dict), choice_value, choice_label and   *)
(* index; a renderer holds name, value, attrs (a reference) and choices (a *)
(* sequence of <<value, label>> pairs).  Every method takes the heap and   *)
(* returns the heap it leaves with what it returns.                        *)

\* ChoiceInput.__init__
ChoiceInput_init(h, cls, name, value, attrs, choice, index) ==
    Alloc(h, [cls |-> cls, name |-> name, value |-> value, attrs |-> attrs,
              choice_value |-> force_text(choice[1]),
              choice_label |-> force_text(choice[2]),
              index |-> index])

\* RadioChoiceInput.__init__ (AdminRadioInput inherits it)
RadioChoiceInput_init(h, cls, name, value, attrs, choice, index) ==
    LET o == ChoiceInput_init(h, cls, name, value, attrs, choice, index)
    IN [h |-> HeapSet(o.h, o.ret, [o.h[o.ret] EXCEPT !.value = force_text(@)]),
        ret |-> o.ret]

input_type(cls) ==
    IF cls \in {"RadioChoiceInput", "AdminRadioInput"} THEN PyStr("radio") ELSE PyNone

\* ChoiceInput.is_checked
is_checked(h, self) == PyEq(h[self].value, h[self].choice_value)

\* ChoiceInput.tag
ChoiceInput_tag(h, self) ==
    LET o == h[self]
        own == h[o.attrs].items
        h1 == IF DictHas(own, "id")
              THEN HeapSet(h, o.attrs, NewDict(DictSet(own, "id",
                       PyStr(Text(DictGet(own, "id")) \o "_" \o ToString(o.index)))))
              ELSE h
        fa == DictSet(DictSet(DictSet(h1[o.attrs].items, "type", input_type(o.cls)),
                              "name", o.name), "value", o.choice_value)
        final_attrs == IF is_checked(h1, self)
                       THEN DictSet(fa, "checked", PyStr("checked")) ELSE fa
    IN [h |-> h1, ret |-> format_html("<input{0} />", <<PySafe(flatatt(final_attrs))>>)]

\* x or y, for an argument that is None or the reference of a dict
DictOr(h, x, y) == IF x /= None /\ h[x].items /= <<>> THEN x ELSE y

\* ChoiceInput.render: label_for is computed before tag() runs
ChoiceInput_render(h, self, name, value, attrs, choices) ==
    LET o == h[self]
        own == h[o.attrs].items
        label_for == IF DictHas(own, "id")
                     THEN PySafe(format_html(" for=\"{0}_{1}\"",
                                             <<DictGet(own, "id"), PyInt(o.index)>>))
                     ELSE PyStr("")
        Labelled(t) ==
            [h |-> t.h,
             ret |-> format_html("<label{0}>{1} {2}</label>",
                                 <<label_for, PySafe(t.ret), o.choice_label>>)]
    IN Labelled(ChoiceInput_tag(h, self))

\* AdminRadioInput.render
AdminRadioInput_render(h, self, name, value, attrs, choices) ==
    LET o == h[self]
        a == DictOr(h, attrs, o.attrs)
        cls == Text(DictGetDefault(h[a].items, "class", PyStr("")))
        h1 == HeapSet(h, a, NewDict(DictSet(h[a].items, "class",
                                            PyStr(str_replace(cls, "form-control", "")))))
        own == h1[o.attrs].items
        label_for == IF DictHas(own, "id")
                     THEN " for=\"" \o Text(DictGet(own, "id")) \o "_"
                              \o ToString(o.index) \o "\""
                     ELSE ""
        choice_label == conditional_escape(force_text(o.choice_label))
        inline == Truthy(DictGetDefault(h1[a].items, "inline", PyBool(FALSE)))
        Labelled(t) ==
            [h |-> t.h,
             ret |-> IF inline
                     THEN "<label" \o label_for \o " class=\"radio-inline\">" \o t.ret
                              \o " " \o choice_label \o "</label>"
                     ELSE "<div class=\"radio\"><label" \o label_for \o ">" \o t.ret
                              \o " " \o choice_label \o "</label></div>"]
    IN Labelled(ChoiceInput_tag(h1, self))

\* widget.render(...), by the class of the input
Input_render(h, self, name, value, attrs, choices) ==
    IF h[self].cls = "AdminRadioInput"
    THEN AdminRadioInput_render(h, self, name, value, attrs, choices)
    ELSE ChoiceInput_render(h, self, name, value, attrs, choices)

\* the class of the inputs a renderer builds
choice_input_class(cls) ==
    IF cls = "AdminRadioFieldRenderer" THEN "AdminRadioInput" ELSE "RadioChoiceInput"

\* a variant that hands the renderer's attrs to the input without copying
Renderer_getitem_Shared(h, self, idx) ==
    RadioChoiceInput_init(h, choice_input_class(h[self].cls), h[self].name,
                          h[self].value, h[self].attrs, h[self].choices[idx + 1], idx)

\* ChoiceFieldRenderer.__getitem__ and AdminRadioFieldRenderer.__getitem__,
\* and one step of their __iter__: the input gets self.attrs.copy()
Renderer_getitem(h, self, idx) ==
    LET c == Alloc(h, NewDict(h[h[self].attrs].items))
    IN RadioChoiceInput_init(c.h, choice_input_class(h[self].cls), h[self].name,
                             h[self].value, c.ret, h[self].choices[idx + 1], idx)

RECURSIVE Renderer_each(_, _, _)
\* [force_text(w) for w in self], from the input of index i on
Renderer_each(h, self, i) ==
    IF i >= Len(h[self].choices) THEN [h |-> h, ret |-> <<>>]
    ELSE LET Rendered(w) == Input_render(w.h, w.ret, None, None, None, <<>>)
             Rest(r) == [Renderer_each(r.h, self, i + 1) EXCEPT !.ret = <<r.ret>> \o @]
         IN Rest(Rendered(Renderer_getitem(h, self, i)))

\* ChoiceFieldRenderer.render
ChoiceFieldRenderer_render(h, self) ==
    LET id_ == DictGetDefault(h[h[self].attrs].items, "id", PyNone)
        start_tag == IF Truthy(id_) THEN format_html("<ul id=\"{0}\">", <<id_>>)
                     ELSE "<ul>"
        Output(ws) ==
            [h |-> ws.h,
             ret |-> str_join("\n", <<start_tag>>
                         \o [i \in 1..Len(ws.ret) |->
                                format_html("<li>{0}</li>", <<PySafe(ws.ret[i])>>)]
                         \o <<"</ul>">>)]
    IN Output(Renderer_each(h, self, 0))

\* AdminRadioFieldRenderer.render
AdminRadioFieldRenderer_render(h, self) ==
    LET Output(ws) == [h |-> ws.h, ret |-> str_join("\n", ws.ret)]
    IN Output(Renderer_each(h, self, 0))

Renderer_render(h, self) ==
    IF h[self].cls = "AdminRadioFieldRenderer"
    THEN AdminRadioFieldRenderer_render(h, self)
    ELSE ChoiceFieldRenderer_render(h, self)

(* The renderers under test: heap[1] is the attrs dict the renderer was    *)
(* built with, heap[2] the renderer, heap[3] a dict a caller may pass to   *)
(* an input's render().                                                    *)

MaxChoices == 2
MaxTags == 2

RendererClasses == {"RadioFieldRenderer", "AdminRadioFieldRenderer"}
InputClasses == {"RadioChoiceInput", "AdminRadioInput"}

AllChoices ==
    <<    <<PyInt(1), PyStr("One")>>, <<PyStr("2"), PyStr("T<o")>>,
      <<PyStr("3"), PySafe("<b>3</b>")>>, <<PyInt(4), PyStr("Four")>>    >>

RadioAttrs ==
    {    <<>>,
      <<[k |-> "id", v |-> PyStr("id_f")]>>,
      <<[k |-> "id", v |-> PyStr("id_f")], [k |-> "inline", v |-> PyBool(TRUE)]>>,
      <<[k |-> "inline", v |-> PyBool(FALSE)], [k |-> "id", v |-> PyStr("id_f")],
        [k |-> "class", v |-> PyStr("form-control big")]>>,
      <<[k |-> "class", v |-> PyStr("form-control")], [k |-> "inline", v |-> PyStr("1")]>>    }

CallerAttrs ==
    {    <<[k |-> "inline", v |-> PyBool(TRUE)]>>,
      <<[k |-> "class", v |-> PyStr("c")]>>    }

InitRadio ==
    /\ \E cls \in RendererClasses, a \in RadioAttrs, e \in CallerAttrs,
          n \in 1..MaxChoices :
          heap = <<NewDict(a),
                   [cls |-> cls, name |-> PyStr("f"), value |-> PyStr("1"),
                    attrs |-> 1, choices |-> SubSeq(AllChoices, 1, n)],
                   NewDict(e)>>
    /\ op = [name |-> "new", args |-> <<2>>]
    /\ ret = PyNone

IsRenderer(h, r) == r \in 1..Len(h) /\ h[r].cls \in RendererClasses
Inputs(h) == {r \in 1..Len(h) : h[r].cls \in InputClasses}

\* how many times tag() has suffixed the id of input w
TagsDone(h, w) ==
    IF DictHas(h[h[w].attrs].items, "id") /\ DictHas(h[1].items, "id")
    THEN (Len(Text(DictGet(h[h[w].attrs].items, "id")))
             - Len(Text(DictGet(h[1].items, "id")))) \div 2
    ELSE 0

\* renderer.render(): the inputs it builds are dropped once it returns
RenderRenderer ==
    /\ IsRenderer(heap, 2)
    /\ LET Returns(r) == /\ heap' = SubSeq(r.h, 1, Len(heap))
                         /\ ret' = PySafe(r.ret)
       IN Returns(Renderer_render(heap, 2))
    /\ op' = [name |-> "Renderer.render", args |-> <<2>>]

\* w = renderer[idx], or taking the input of index idx from iter(renderer):
\* the caller holds one input, and the one it held before is dropped
GetItem ==
    /\ IsRenderer(heap, 2)
    /\ \E idx \in 0..(Len(heap[2].choices) - 1) :
          LET Returns(r) == /\ heap' = r.h
                            /\ ret' = PyRef(r.ret)
          IN /\ Returns(Renderer_getitem(SubSeq(heap, 1, 3), 2, idx))
             /\ op' = [name |-> "Renderer.getitem", args |-> <<2, idx>>]

\* w.render() and w.render(attrs=...) on an input a caller holds
RenderInput ==
    /\ IsRenderer(heap, 2)
    /\ \E w \in Inputs(heap), attrs \in {None, 3} :
          /\ TagsDone(heap, w) < MaxTags
          /\ LET Returns(r) == /\ heap' = r.h
                               /\ ret' = PySafe(r.ret)
             IN Returns(Input_render(heap, w, None, None, attrs, <<>>))
          /\ op' = [name |-> "Input.render", args |-> <<w, attrs>>]

\* w.tag() on an input a caller holds
TagInput ==
    /\ IsRenderer(heap, 2)
    /\ \E w \in Inputs(heap) :
          /\ TagsDone(heap, w) < MaxTags
          /\ LET Returns(r) == /\ heap' = r.h
                               /\ ret' = PySafe(r.ret)
             IN Returns(ChoiceInput_tag(heap, w))
          /\ op' = [name |-> "Input.tag", args |-> <<w>>]

NextRadio == RenderRenderer \/ GetItem \/ RenderInput \/ TagInput

SpecRadio == InitRadio /\ [][NextRadio]_vars

---------------------------------------------------------------------------
(* AdminCheckboxSelect.  The widget object holds attrs (a reference) and   *)
(* choices; render's value is [none, list] (None, or a list of values) and *)
(* its attrs is None or the reference of the caller's dict.                *)

\* django.forms.Widget.build_attrs: dict(self.attrs, **kwargs), updated with
\* extra_attrs when that is not empty
build_attrs(own, extra_attrs, kwargs) ==
    DictUpdate(DictUpdate(own, kwargs), extra_attrs)

\* django.forms.utils.flatatt: a value that is True gives a bare attribute,
\* one that is False gives nothing
django_flatatt(attrs) ==
    LET kv == sorted(SelectSeq(attrs, LAMBDA it : it.v.t /= "bool"))
        bl == sorted(SelectSeq(attrs, LAMBDA it : it.v.t = "bool" /\ it.v.n = 1))
    IN format_html_join("", " {0}=\"{1}\"",
                        [i \in 1..Len(kv) |-> <<PyStr(kv[i].k), kv[i].v>>])
         \o format_html_join("", " {0}", [i \in 1..Len(bl) |-> <<PyStr(bl[i].k)>>])

\* django.forms.CheckboxInput(attrs, check_test).render(name, value): the
\* widget was built with a copy of attrs; checked is whether check_test(value)
CheckboxInput_render(attrs, checked, name, value) ==
    LET fa == build_attrs(attrs, <<>>,
                  <<[k |-> "type", v |-> PyStr("checkbox")], [k |-> "name", v |-> name]>>)
        fc == IF checked THEN DictSet(fa, "checked", PyStr("checked")) ELSE fa
        final_attrs == IF value.t \in {"bool", "none"} \/ PyEq(value, PyStr(""))
                       THEN fc ELSE DictSet(fc, "value", force_text(value))
    IN format_html("<input{0} />", <<PySafe(django_flatatt(final_attrs))>>)

\* a variant that looks the option's text up among the values as they came
str_values_Raw(value) == {value[i] : i \in 1..Len(value)}

\* str_values = set([force_unicode(v) for v in value])
str_values(value) == {force_text(value[i]) : i \in 1..Len(value)}

\* a variant that reads 'inline' from the attrs passed to render only
option_inline_FromArgument(final_attrs, attrs) ==
    Truthy(DictGetDefault(attrs, "inline", PyBool(FALSE)))

\* final_attrs.get('inline', False)
option_inline(final_attrs, attrs) ==
    Truthy(DictGetDefault(final_attrs, "inline", PyBool(FALSE)))

RECURSIVE AdminCheckboxSelect_options(_, _, _, _, _, _)
\* the loop of AdminCheckboxSelect.render over the options from position i on
\* (i counts from 0); final_attrs is carried from one option to the next
AdminCheckboxSelect_options(options, i, name, values, attrs, final_attrs) ==
    IF i >= Len(options) THEN <<>>
    ELSE LET has_id == DictHas(attrs, "id")
             fa == IF has_id
                   THEN DictSet(final_attrs, "id",
                            PyStr(Text(DictGet(attrs, "id")) \o "_" \o ToString(i)))
                   ELSE final_attrs
             label_for == IF has_id THEN " for=\"" \o Text(DictGet(fa, "id")) \o "\""
                          ELSE ""
             option_value == force_text(options[i + 1][1])
             checked == \E v \in values : PyEq(v, option_value)
             rendered_cb == CheckboxInput_render(fa, checked, name, option_value)
             option_label == conditional_escape(force_text(options[i + 1][2]))
             line == IF option_inline(fa, attrs)
                     THEN "<label" \o label_for \o " class=\"checkbox-inline\">"
                              \o rendered_cb \o " " \o option_label \o "</label>"
                     ELSE "<div class=\"checkbox\"><label" \o label_for \o ">"
                              \o rendered_cb \o " " \o option_label \o "</label></div>"
         IN <<line>> \o AdminCheckboxSelect_options(options, i + 1, name, values,
                                                    attrs, fa)

\* AdminCheckboxSelect.render
AdminCheckboxSelect_render(h, self, name, value, attrs, choices) ==
    LET vs == IF value.none THEN <<>> ELSE value.list
        given == IF attrs = None THEN <<>> ELSE h[attrs].items
        final_attrs == build_attrs(h[h[self].attrs].items, given, <<>>)
    IN [h |-> h,
        ret |-> str_join("\n",
                    AdminCheckboxSelect_options(h[self].choices \o choices, 0, name,
                                                str_values(vs), given, final_attrs))]

(* The checkbox widgets under test: heap[1] is the widget's attrs, heap[2] *)
(* the widget, heap[3] the dict a caller may pass to render.               *)

CheckboxWidgetAttrs ==
    {    <<>>,
      <<[k |-> "id", v |-> PyStr("id_w")]>>,
      <<[k |-> "inline", v |-> PyBool(TRUE)]>>,
      <<[k |-> "class", v |-> PyStr("c")], [k |-> "inline", v |-> PyBool(FALSE)]>>    }

CheckboxCallerAttrs ==
    {    <<>>,
      <<[k |-> "id", v |-> PyStr("id_f")]>>,
      <<[k |-> "inline", v |-> PyBool(TRUE)], [k |-> "id", v |-> PyStr("id_f")]>>,
      <<[k |-> "inline", v |-> PyStr("")]>>    }

CheckboxValues ==
    {    [none |-> TRUE, list |-> <<>>],
      [none |-> FALSE, list |-> <<>>],
      [none |-> FALSE, list |-> <<PyInt(1)>>],
      [none |-> FALSE, list |-> <<PyStr("2"), PyInt(1)>>],
      [none |-> FALSE, list |-> <<PyStr("3"), PyStr("1")>>],
      [none |-> FALSE, list |-> <<PyInt(2), PyStr("x")>>]    }

InitCheckbox ==
    /\ \E wa \in CheckboxWidgetAttrs, ca \in CheckboxCallerAttrs,
          k \in 0..MaxChoices, value \in CheckboxValues, attrs \in {None, 3} :
          \E m \in 0..(MaxChoices - k) :
             /\ heap = <<NewDict(wa),
                         [cls |-> "AdminCheckboxSelect", attrs |-> 1,
                          choices |-> SubSeq(AllChoices, 1, k)],
                         NewDict(ca)>>
             /\ op = [name |-> "new",
                      args |-> <<2, PyStr("f"), value, attrs,
                                 SubSeq(AllChoices, k + 1, k + m)>>]
    /\ ret = PyNone

\* widget.render(name, value, attrs, choices)
RenderCheckbox ==
    /\ heap[2].cls = "AdminCheckboxSelect"
    /\ LET r == AdminCheckboxSelect_render(heap, op.args[1], op.args[2], op.args[3],
                                           op.args[4], op.args[5])
       IN /\ heap' = r.h
          /\ ret' = PySafe(r.ret)
    /\ op' = [name |-> "AdminCheckboxSelect.render", args |-> op.args]

NextCheckbox == RenderCheckbox

SpecCheckbox == InitCheckbox /\ [][NextCheckbox]_vars

(* Radio renderers and checkbox widgets together.                          *)

InitChoices == InitRadio \/ InitCheckbox

NextChoices == NextRadio \/ NextCheckbox

SpecChoices == InitChoices /\ [][NextChoices]_vars

---------------------------------------------------------------------------
(* Reading the rendered HTML back.                                         *)

RECURSIVE Lines(_)
\* s.split('\n')
Lines(s) ==
    LET p == str_find(s, "\n")
    IN IF p = 0 THEN <<s>>
       ELSE <<SubSeq(s, 1, p - 1)>> \o Lines(SubSeq(s, p + 1, Len(s)))

StartsWith(s, pre) == Len(s) >= Len(pre) /\ SubSeq(s, 1, Len(pre)) = pre
EndsWith(s, suf) == Len(s) >= Len(suf) /\ SubSeq(s, Len(s) - Len(suf) + 1, Len(s)) = suf
Contains(s, sub) == str_find(s, sub) > 0

\* whether the element carries the attribute key="...", and its value
HasAttr(html, key) == Contains(html, " " \o key \o "=\"")
AttrValue(html, key) ==
    LET pat == " " \o key \o "=\""
        rest == SubSeq(html, str_find(html, pat) + Len(pat), Len(html))
    IN SubSeq(rest, 1, str_find(rest, "\"") - 1)

\* the text a choice's label is shown as
ShownLabel(choice) ==
    IF choice[2].t = "safe" THEN choice[2].s ELSE escape(Text(choice[2]))

\* the elements of the last rendering, one per line; the plain renderer wraps
\* them in <ul> ... </ul>
RenderedLines(html, cls) ==
    IF html = "" THEN <<>>
    ELSE IF cls = "RadioFieldRenderer"
    THEN SubSeq(Lines(html), 2, Len(Lines(html)) - 1)
    ELSE Lines(html)

InlineElement(line, kind, label) ==
    /\ StartsWith(line, "<label")
    /\ Contains(line, " class=\"" \o kind \o "-inline\"><input ")
    /\ ~Contains(line, "<div")
    /\ EndsWith(line, " " \o label \o "</label>")

BlockElement(line, kind, label) ==
    /\ StartsWith(line, "<div class=\"" \o kind \o "\"><label")
    /\ ~Contains(line, "-inline\"")
    /\ EndsWith(line, " " \o label \o "</label></div>")

InlineInEffect(d) == DictHas(d, "inline") /\ Truthy(DictGet(d, "inline"))

---------------------------------------------------------------------------
(* AdminCheckboxSelect.render                                              *)

CheckboxRendered == op.name = "AdminCheckboxSelect.render"
CheckboxOptions == heap[2].choices \o op.args[5]
CheckboxLines == RenderedLines(ret.s, "AdminCheckboxSelect")
CheckboxPassed == IF op.args[4] = None THEN <<>> ELSE heap[op.args[4]].items
\* the attributes in effect: the widget's own, overridden by those passed
CheckboxEffective ==
    [k \in DictKeys(heap[1].items) \cup DictKeys(CheckboxPassed) |->
        IF DictHas(CheckboxPassed, k) THEN DictGet(CheckboxPassed, k)
        ELSE DictGet(heap[1].items, k)]

\* C5: whenever the rendered checkboxes carry an id attribute, whether it came
\* from the attrs passed to render or from the widget's own attrs, the i-th
\* option (from 0, widget choices first) has id '<id>_<i>', no two checkboxes
\* of one rendering share an id, and each label's for equals its checkbox's id.
C5_IndexedIds ==
    CheckboxRendered /\ "id" \in DOMAIN CheckboxEffective =>
        /\ Len(CheckboxLines) = Len(CheckboxOptions)
        /\ \A i \in 1..Len(CheckboxLines) :
              /\ HasAttr(CheckboxLines[i], "id")
              /\ AttrValue(CheckboxLines[i], "id")
                    = Text(CheckboxEffective["id"]) \o "_" \o ToString(i - 1)
              /\ HasAttr(CheckboxLines[i], "for")
              /\ AttrValue(CheckboxLines[i], "for") = AttrValue(CheckboxLines[i], "id")
        /\ \A i, j \in 1..Len(CheckboxLines) :
              AttrValue(CheckboxLines[i], "id") = AttrValue(CheckboxLines[j], "id")
                  => i = j

\* C6: an option's checkbox is checked if and only if the text of the option's
\* value equals the text of at least one selected value; None selects
\* nothing; and there is exactly one checkbox per option, widget choices
\* first, then the choices passed to render.
C6_CheckedIffSelected ==
    CheckboxRendered =>
        LET selected == IF op.args[3].none THEN <<>> ELSE op.args[3].list
        IN /\ Len(CheckboxLines) = Len(CheckboxOptions)
           /\ \A i \in 1..Len(CheckboxLines) :
                 /\ HasAttr(CheckboxLines[i], "checked")
                       <=> \E j \in 1..Len(selected) :
                              Text(selected[j]) = Text(CheckboxOptions[i][1])
                 /\ AttrValue(CheckboxLines[i], "value") = Text(CheckboxOptions[i][1])
                 /\ Contains(CheckboxLines[i], "<input ")
                 /\ ~Contains(SubSeq(CheckboxLines[i],
                                     str_find(CheckboxLines[i], "<input ") + 1,
                                     Len(CheckboxLines[i])), "<input ")
           /\ op.args[3].none =>
                 \A i \in 1..Len(CheckboxLines) : ~HasAttr(CheckboxLines[i], "checked")

\* a rendering of a widget choice and a passed choice where the selected
\* integer 2 checks the option whose value is the string '2' and the other
\* option stays unchecked
C6_Witness ==
    /\ CheckboxRendered
    /\ Len(heap[2].choices) = 1 /\ Len(op.args[5]) = 1
    /\ op.args[3] = [none |-> FALSE, list |-> <<PyInt(2), PyStr("x")>>]
    /\ ~HasAttr(CheckboxLines[1], "checked")
    /\ HasAttr(CheckboxLines[2], "checked")

---------------------------------------------------------------------------
(* Inline and block layout                                                 *)

\* the layout claim for one rendering: kind is 'radio' or 'checkbox'
SameLayout(lines, choices, kind, inline) ==
    /\ Len(lines) = Len(choices)
    /\ \A i \in 1..Len(lines) :
          IF inline THEN InlineElement(lines[i], kind, ShownLabel(choices[i]))
          ELSE BlockElement(lines[i], kind, ShownLabel(choices[i]))

AdminRadioRendered ==
    op.name = "Renderer.render" /\ heap[2].cls = "AdminRadioFieldRenderer"
AdminInputRendered ==
    op.name = "Input.render" /\ heap[op.args[1]].cls = "AdminRadioInput"

\* C7: with a truthy 'inline' among the attributes in effect every option is a
\* bare label of class 'radio-inline' (AdminRadioInput) or 'checkbox-inline'
\* (AdminCheckboxSelect) with no wrapping div; otherwise every option is a
\* label wrapped in a div of class 'radio' or 'checkbox'; all options of one
\* rendering use the same layout, one element per choice, in choice order,
\* joined by newlines.
C7_InlineOrBlock ==
    /\ AdminRadioRendered =>
          SameLayout(RenderedLines(ret.s, heap[2].cls), heap[2].choices, "radio",
                     InlineInEffect(heap[1].items))
    /\ AdminInputRendered =>
          LET w == heap[op.args[1]]
              a == IF op.args[2] /= None /\ heap[op.args[2]].items /= <<>>
                   THEN op.args[2] ELSE w.attrs
          IN SameLayout(<<ret.s>>, <<heap[2].choices[w.index + 1]>>, "radio",
                        InlineInEffect(heap[a].items))
    /\ CheckboxRendered =>
          SameLayout(CheckboxLines, CheckboxOptions, "checkbox",
                     "inline" \in DOMAIN CheckboxEffective
                         /\ Truthy(CheckboxEffective["inline"]))

\* a checkbox rendering of two options laid out inline because of the
\* widget's own attrs
C7_Witness ==
    /\ CheckboxRendered
    /\ Len(CheckboxOptions) = 2
    /\ InlineInEffect(heap[1].items)
    /\ ~DictHas(CheckboxPassed, "inline")
    /\ \A i \in 1..2 : Contains(CheckboxLines[i], "checkbox-inline")

---------------------------------------------------------------------------
(* Item ids                                                                *)

\* '$id_$i' for the input of index i of the renderer under test
ItemId(h, i) == Text(DictGet(h[1].items, "id")) \o "_" \o ToString(i)
IdGiven(h) == DictHas(h[1].items, "id")

\* C8: if an id was given, every render() of a renderer, also a repeated one
\* and one that follows indexing and the rendering of inputs, gives the i-th
\* item the input id '$id_$i' and the label for '$id_$i', and leaves the
\* renderer's attrs, its id with them, as they were.
C8_RenderGivesIndexedIds ==
    /\ [](op.name = "Renderer.render" =>
             LET lines == RenderedLines(ret.s, heap[2].cls)
             IN /\ Len(lines) = Len(heap[2].choices)
                /\ IdGiven(heap) =>
                      \A i \in 1..Len(lines) :
                         /\ HasAttr(lines[i], "id") /\ HasAttr(lines[i], "for")
                         /\ AttrValue(lines[i], "id") = ItemId(heap, i - 1)
                         /\ AttrValue(lines[i], "for") = ItemId(heap, i - 1))
    /\ [][op'.name = "Renderer.render" =>
             \A r \in 1..Len(heap) : heap'[r] = heap[r]]_vars

\* a render() of two items with an id, run while the caller holds an input
\* it has already rendered
C8_Witness ==
    /\ op.name = "Renderer.render"
    /\ IdGiven(heap)
    /\ Len(heap[2].choices) = 2
    /\ \E w \in Inputs(heap) : TagsDone(heap, w) >= 1
    /\ AttrValue(RenderedLines(ret.s, heap[2].cls)[2], "id") = ItemId(heap, 1)

\* C9: for one input taken from a renderer whose attrs carry an id, every
\* render() and tag() on that input, however many came before, gives the
\* input id '$id_$i', and every render() the label for '$id_$i'.
C9_ItemIdStable ==
    op.name \in {"Input.render", "Input.tag"} /\ IdGiven(heap) =>
        LET i == heap[op.args[1]].index
        IN /\ AttrValue(ret.s, "id") = ItemId(heap, i)
           /\ op.name = "Input.render" => AttrValue(ret.s, "for") = ItemId(heap, i)

====
